---- MODULE Spec2Model ----
(***************************************************************************)
(* Gestor de precios (src/main.py): products, individual and bulk price    *)
(* updates, and the price history they write.                              *)
(*                                                                         *)
(* Money is counted in hundredths (100 stands for 1.00), times are ticks   *)
(* of the wall clock.  The two tables of prices.db are the variables       *)
(* products and history; a bulk increase in flight keeps its ORM session   *)
(* in the variable session until it commits or fails.  Handlers that write *)
(* are taken one at a time; the read handlers may run at any moment, also  *)
(* while a bulk increase is between its SELECT and its COMMIT.             *)
(***************************************************************************)
EXTENDS Integers, Sequences, FiniteSets, TLC

\* ---------------------------------------------------------------- bounds

\* Writing requests accepted in one behaviour.
MaxOps == 3
\* Writing requests accepted in one behaviour of the deeper specification.
MaxOpsDeep == 4
\* Last tick of the clock; a read at MaxTime returns MaxTime again.
MaxTime == 1
\* Largest product id the model lets the table give out.
MaxId == 2

\* ---------------------------------------------------------------- values

\* Python's None.
None == "None"

\* The request bodies the model sends.
CreateInputs ==
    { [name |-> "A", category |-> "x", cost |-> 50, price |-> 100],
      [name |-> "B", category |-> "y", cost |-> 0,  price |-> 200],
      [name |-> "A", category |-> "y", cost |-> 50, price |-> 1] }

\* A PUT body: fields_set holds the keys the body carries (what
\* exclude_unset keeps); a field outside fields_set holds a filler.
UpdateInputs ==
    { [fields_set |-> {},
       name |-> "", category |-> "", cost |-> 0, price |-> 0],
      [fields_set |-> {"price"},
       name |-> "", category |-> "", cost |-> 0, price |-> 100],
      [fields_set |-> {"price"},
       name |-> "", category |-> "", cost |-> 0, price |-> 16],
      [fields_set |-> {"name", "cost"},
       name |-> "B", category |-> "", cost |-> 0, price |-> 0],
      [fields_set |-> {"category", "price"},
       name |-> "", category |-> "x", cost |-> 0, price |-> 100] }

\* A POST /products/increase body; reason defaults to "Ajuste masivo".
BulkInputs ==
    { [percentage |-> 10,   category |-> None, reason |-> "Ajuste masivo"],
      [percentage |-> 10,   category |-> "x",  reason |-> "promo"],
      [percentage |-> -200, category |-> None, reason |-> "promo"],
      [percentage |-> 10,   category |-> "",   reason |-> "promo"] }

\* The identifiers a request may name.
ProductIds == 1 .. MaxId

VARIABLES
    products,   \* table product: id -> row
    history,    \* table pricehistory, in rowid order (row i has id i)
    now,        \* the last value the clock returned
    nops,       \* writing requests accepted so far
    session,    \* the ORM session of the bulk increase in flight
    req,        \* the request handled last
    resp        \* its response

vars == <<products, history, now, nops, session, req, resp>>

\* ---------------------------------------------------------------- helpers

Max(S) == CHOOSE m \in S : \A x \in S : x <= m

\* datetime.utcnow(): the clock never runs backwards; two reads may return
\* the same tick.
Utcnow(t) == { u \in {t, t + 1} : u <= MaxTime }

\* The id SQLite gives a new product row: INTEGER PRIMARY KEY without
\* AUTOINCREMENT is one more than the largest id stored now.
NextProductId == IF DOMAIN products = {} THEN 1 ELSE Max(DOMAIN products) + 1

\* The id of the k-th pricehistory row added by a commit (no row of the
\* table is ever deleted).
NextHistoryId(k) == Len(history) + k

\* round(x, 2) for x = n / 10000: n is in hundredths of a hundredth.  The
\* result is in hundredths; a value exactly half way goes to the even side.
\* (Python rounds the binary float, which differs on some exact halves; the
\* request bodies above produce none.)
Round2(n) ==
    LET q == n \div 100
        r == n % 100
    IN  IF r < 50 THEN q
        ELSE IF r > 50 THEN q + 1
        ELSE IF q % 2 = 0 THEN q ELSE q + 1

NoSession ==
    [active |-> FALSE, payload |-> None, todo |-> <<>>, objs |-> <<>>,
     pending |-> <<>>, updated_count |-> 0]

NoRequest == [op |-> "none", id |-> 0, data |-> None]
NoResponse == [status |-> 0, body |-> None]

HTTPException404 == [status |-> 404, body |-> "Producto no encontrado"]

Init ==
    /\ products = <<>>
    /\ history = <<>>
    /\ now = 0
    /\ nops = 0
    /\ session = NoSession
    /\ req = NoRequest
    /\ resp = NoResponse

\* ---------------------------------------------------------------- products

\* POST /products
create_product(data, bound) ==
    /\ ~session.active
    /\ nops < bound
    /\ NextProductId <= MaxId
    /\ \E t1 \in Utcnow(now) : \E t2 \in Utcnow(t1) :
         LET product == [id |-> NextProductId,
                         name |-> data.name, category |-> data.category,
                         cost |-> data.cost, price |-> data.price,
                         created_at |-> t1, updated_at |-> t2]
         IN  /\ products' = (NextProductId :> product) @@ products
             /\ now' = t2
             /\ resp' = [status |-> 200, body |-> product]
    /\ req' = [op |-> "create", id |-> 0, data |-> data]
    /\ nops' = nops + 1
    /\ UNCHANGED <<history, session>>

\* GET /products/{id}
get_product(product_id) ==
    /\ req' = [op |-> "get", id |-> product_id, data |-> None]
    /\ resp' = IF product_id \in DOMAIN products
               THEN [status |-> 200, body |-> products[product_id]]
               ELSE HTTPException404
    /\ UNCHANGED <<products, history, now, nops, session>>

\* SetAttrs as a full replacement: every field of the body is written.
SetAttrs_Replace(product, update_data) ==
    [product EXCEPT !.name = update_data.name,
                    !.category = update_data.category,
                    !.cost = update_data.cost,
                    !.price = update_data.price]

\* data.dict(exclude_unset=True) applied with setattr: only the supplied
\* fields change.
SetAttrs(product, update_data) ==
    [product EXCEPT
        !.name     = IF "name" \in update_data.fields_set THEN update_data.name ELSE @,
        !.category = IF "category" \in update_data.fields_set THEN update_data.category ELSE @,
        !.cost     = IF "cost" \in update_data.fields_set THEN update_data.cost ELSE @,
        !.price    = IF "price" \in update_data.fields_set THEN update_data.price ELSE @]

\* PriceChanged without the comparison with the stored price.
PriceChanged_Supplied(update_data, old_price) ==
    "price" \in update_data.fields_set

\* "price" in update_data and update_data["price"] != old_price
PriceChanged(update_data, old_price) ==
    /\ "price" \in update_data.fields_set
    /\ update_data.price # old_price

\* PUT /products/{id}
update_product(product_id, data, bound) ==
    /\ ~session.active
    /\ req' = [op |-> "update", id |-> product_id, data |-> data]
    /\ IF product_id \notin DOMAIN products
       THEN /\ resp' = HTTPException404
            /\ UNCHANGED <<products, history, now, nops, session>>
       ELSE /\ nops < bound
            /\ \E t1 \in Utcnow(now) :
                 LET old_price == products[product_id].price
                     product == [SetAttrs(products[product_id], data)
                                     EXCEPT !.updated_at = t1]
                 IN  /\ products' = [products EXCEPT ![product_id] = product]
                     /\ resp' = [status |-> 200, body |-> product]
                     /\ IF PriceChanged(data, old_price)
                        THEN \E t2 \in Utcnow(t1) :
                               /\ history' = Append(history,
                                      [id |-> NextHistoryId(1),
                                       product_id |-> product.id,
                                       old_price |-> old_price,
                                       new_price |-> product.price,
                                       reason |-> "Actualizacion individual",
                                       created_at |-> t2])
                               /\ now' = t2
                        ELSE /\ history' = history
                             /\ now' = t1
            /\ nops' = nops + 1
            /\ UNCHANGED session

\* session_delete with the rows of the product deleted too (a cascade).
session_delete_Cascade(product_id) ==
    [products |-> [i \in DOMAIN products \ {product_id} |-> products[i]],
     history  |-> SelectSeq(history, LAMBDA e : e.product_id # product_id)]

\* session.delete(product); session.commit(): the product row goes, the
\* pricehistory table is not touched (SQLite enforces no foreign key here).
session_delete(product_id) ==
    [products |-> [i \in DOMAIN products \ {product_id} |-> products[i]],
     history  |-> history]

\* DELETE /products/{id}
delete_product(product_id, bound) ==
    /\ ~session.active
    /\ req' = [op |-> "delete", id |-> product_id, data |-> None]
    /\ IF product_id \notin DOMAIN products
       THEN /\ resp' = HTTPException404
            /\ UNCHANGED <<products, history, now, nops, session>>
       ELSE /\ nops < bound
            /\ products' = session_delete(product_id).products
            /\ history' = session_delete(product_id).history
            /\ resp' = [status |-> 200, body |-> "Producto eliminado"]
            /\ nops' = nops + 1
            /\ UNCHANGED <<now, session>>

\* ---------------------------------------------------------------- bulk

\* select(Product), with .where(Product.category == payload.category) when
\* payload.category is truthy: None and the empty string both leave the
\* query unfiltered.
Selection(payload) ==
    IF payload.category # None /\ payload.category # ""
    THEN { i \in DOMAIN products : products[i].category = payload.category }
    ELSE DOMAIN products

\* The selected ids in the order the rows are read (rowid order).
RECURSIVE Ascending(_)
Ascending(S) ==
    IF S = {} THEN <<>>
    ELSE LET m == CHOOSE x \in S : \A y \in S : x <= y
         IN  <<m>> \o Ascending(S \ {m})

\* NewPrice with factor = percentage / 100.0.
NewPrice_FactorWithoutOne(old_price, percentage) == Round2(old_price * percentage)

\* factor = 1 + percentage / 100.0; new_price = round(old_price * factor, 2)
NewPrice(old_price, percentage) == Round2(old_price * (100 + percentage))

\* session_add writing the row at once (a commit inside the loop).
session_add_Autocommit(table, obj) == [table EXCEPT ![obj.id] = obj]

\* session.add(obj) registers obj with the session; the table is written
\* by session.commit() only.
session_add(table, obj) == table

\* POST /products/increase, up to the end of the SELECT.
BulkSelect(payload, bound) ==
    /\ ~session.active
    /\ nops < bound
    /\ nops' = nops + 1
    /\ req' = [op |-> "bulk", id |-> 0, data |-> payload]
    /\ IF Selection(payload) = {}
       THEN /\ resp' = [status |-> 200, body |-> [updated |-> 0]]
            /\ session' = session
       ELSE /\ resp' = NoResponse
            /\ session' = [active |-> TRUE, payload |-> payload,
                           todo |-> Ascending(Selection(payload)),
                           objs |-> [i \in Selection(payload) |-> products[i]],
                           pending |-> <<>>, updated_count |-> 0]
    /\ UNCHANGED <<products, history, now>>

\* One turn of "for product in products".
BulkLoop ==
    /\ session.active
    /\ session.todo # <<>>
    /\ \E t1 \in Utcnow(now) : \E t2 \in Utcnow(t1) :
         LET id == Head(session.todo)
             old_price == session.objs[id].price
             new_price == NewPrice(old_price, session.payload.percentage)
             product == [session.objs[id] EXCEPT !.price = new_price,
                                                !.updated_at = t1]
             entry == [product_id |-> id, old_price |-> old_price,
                       new_price |-> new_price,
                       reason |-> session.payload.reason, created_at |-> t2]
         IN  /\ session' = [session EXCEPT
                               !.todo = Tail(@),
                               !.objs = [@ EXCEPT ![id] = product],
                               !.pending = Append(@, entry),
                               !.updated_count = @ + 1]
             /\ products' = session_add(products, product)
             /\ now' = t2
    /\ req' = [op |-> "bulk", id |-> 0, data |-> session.payload]
    /\ resp' = NoResponse
    /\ UNCHANGED <<history, nops>>

\* The rows a flush inserts, with the ids the table gives them.
Flushed(pending) ==
    [k \in 1 .. Len(pending) |->
        [id |-> NextHistoryId(k),
         product_id |-> pending[k].product_id,
         old_price |-> pending[k].old_price,
         new_price |-> pending[k].new_price,
         reason |-> pending[k].reason,
         created_at |-> pending[k].created_at]]

\* session.commit() after the loop, and the response.
BulkCommit ==
    /\ session.active
    /\ session.todo = <<>>
    /\ products' = [i \in DOMAIN products |->
                       IF i \in DOMAIN session.objs THEN session.objs[i]
                       ELSE products[i]]
    /\ history' = history \o Flushed(session.pending)
    /\ req' = [op |-> "bulk", id |-> 0, data |-> session.payload]
    /\ resp' = [status |-> 200,
                body |-> [updated |-> session.updated_count,
                          percentage |-> session.payload.percentage,
                          category |-> session.payload.category]]
    /\ session' = NoSession
    /\ UNCHANGED <<now, nops>>

\* The request dies before its commit took effect (the store refuses the
\* commit, the worker is lost): get_session closes the session, which rolls
\* back, and nothing of the batch is kept.
BulkFail ==
    /\ session.active
    /\ req' = [op |-> "bulk", id |-> 0, data |-> session.payload]
    /\ resp' = [status |-> 500, body |-> None]
    /\ session' = NoSession
    /\ UNCHANGED <<products, history, now, nops>>

\* ---------------------------------------------------------------- history

\* The pricehistory rows of one product.
HistoryOf(product_id) ==
    { history[k] : k \in { j \in 1 .. Len(history) :
                              history[j].product_id = product_id } }

\* OrderByCreatedAtDesc with the order turned around (.asc()).
OrderByCreatedAtDesc_Asc(rows) ==
    { s \in [1 .. Cardinality(rows) -> rows] :
        /\ \A i, j \in DOMAIN s : i # j => s[i] # s[j]
        /\ \A i, j \in DOMAIN s : i < j => s[i].created_at <= s[j].created_at }

\* .order_by(PriceHistory.created_at.desc()): every order of the rows in which
\* created_at never increases; rows of one tick come in any order.
OrderByCreatedAtDesc(rows) ==
    { s \in [1 .. Cardinality(rows) -> rows] :
        /\ \A i, j \in DOMAIN s : i # j => s[i] # s[j]
        /\ \A i, j \in DOMAIN s : i < j => s[i].created_at >= s[j].created_at }

\* GET /products/{id}/history
get_history(product_id) ==
    /\ req' = [op |-> "history", id |-> product_id, data |-> None]
    /\ IF product_id \notin DOMAIN products
       THEN resp' = HTTPException404
       ELSE \E s \in OrderByCreatedAtDesc(HistoryOf(product_id)) :
                resp' = [status |-> 200, body |-> s]
    /\ UNCHANGED <<products, history, now, nops, session>>

\* ---------------------------------------------------------------- behaviours

Requests(bound) ==
    \/ \E data \in CreateInputs : create_product(data, bound)
    \/ \E id \in ProductIds : get_product(id)
    \/ \E id \in ProductIds, data \in UpdateInputs : update_product(id, data, bound)
    \/ \E id \in ProductIds : delete_product(id, bound)
    \/ \E payload \in BulkInputs : BulkSelect(payload, bound)
    \/ BulkLoop
    \/ BulkCommit
    \/ BulkFail
    \/ \E id \in ProductIds : get_history(id)

Next == Requests(MaxOps)

Spec == Init /\ [][Next]_vars

NextDeep == Requests(MaxOpsDeep)

SpecDeep == Init /\ [][NextDeep]_vars

\* ---------------------------------------------------------------- claims

\* The step just taken answered request op with a success.
Answered(op) == req'.op = op /\ resp'.status = 200

\* reason of the row an individual update writes (the source spells it
\* "Actualización individual").
IndividualUpdateReason == "Actualizacion individual"

\* C1: an update of an existing product adds exactly one pricehistory row
\* (product_id = the id, old_price = the price stored before, new_price = the
\* supplied price, reason = the individual-update constant) if and only if the
\* body carries price and its value differs from the stored price; otherwise
\* the table is left as it was.
C1_UpdateWritesHistoryIffPriceDiffers ==
    [][Answered("update") =>
        LET id == req'.id
            data == req'.data
            old == products[id].price
        IN  IF "price" \in data.fields_set /\ data.price # old
            THEN /\ Len(history') = Len(history) + 1
                 /\ SubSeq(history', 1, Len(history)) = history
                 /\ history'[Len(history')].product_id = id
                 /\ history'[Len(history')].old_price = old
                 /\ history'[Len(history')].new_price = data.price
                 /\ history'[Len(history')].reason = IndividualUpdateReason
            ELSE history' = history]_vars

\* C1 witness: an update that carried a new price has written its row.
C1_Witness ==
    /\ req.op = "update" /\ resp.status = 200
    /\ "price" \in req.data.fields_set
    /\ history # <<>>
    /\ history[Len(history)].product_id = req.id
    /\ history[Len(history)].new_price = req.data.price
    /\ history[Len(history)].old_price # req.data.price
    /\ history[Len(history)].reason = IndividualUpdateReason

\* The pricehistory rows the step just taken has added.
Added == { history'[k] : k \in Len(history) + 1 .. Len(history') }

\* q is n / 100 rounded to the nearest integer (n in hundredths of q's unit).
IsRound2(q, n) ==
    LET d == 100 * q - n
    IN  2 * (IF d < 0 THEN -d ELSE d) <= 100

\* The step just taken is the commit of the bulk increase in flight.
BulkCommitted == session.active /\ Answered("bulk")

\* C2: a bulk increase that selected n >= 1 products sets the price of each to
\* round(old price * (1 + percentage / 100), 2) and adds exactly n
\* pricehistory rows, one per selected product, with that product's old and
\* new price and the request's reason, also when the new price equals the old
\* one; it answers updated = n.
C2_BulkIncreaseSetsPricesAndWritesHistory ==
    [][BulkCommitted =>
        LET payload == req'.data
            selected == DOMAIN session.objs
        IN  /\ selected # {}
            /\ selected \subseteq DOMAIN products'
            /\ \A i \in selected :
                 IsRound2(products'[i].price,
                          products[i].price * (100 + payload.percentage))
            /\ Len(history') = Len(history) + Cardinality(selected)
            /\ SubSeq(history', 1, Len(history)) = history
            /\ \A i \in selected :
                 Cardinality({ e \in Added : e.product_id = i }) = 1
            /\ \A e \in Added :
                 /\ e.product_id \in selected
                 /\ e.old_price = products[e.product_id].price
                 /\ e.new_price = products'[e.product_id].price
                 /\ e.reason = payload.reason
            /\ resp'.body.updated = Cardinality(selected)]_vars

\* C2 witness: a bulk increase of two products has committed; one row records
\* a changed price, the other a price that rounding left as it was.
C2_Witness ==
    /\ req.op = "bulk" /\ resp.status = 200
    /\ resp.body.updated = 2
    /\ Len(history) >= 2
    /\ LET a == history[Len(history) - 1]
           b == history[Len(history)]
       IN  /\ {a.product_id, b.product_id} = DOMAIN products
           /\ a.product_id # b.product_id
           /\ a.old_price # a.new_price
           /\ b.old_price = b.new_price
           /\ products[a.product_id].price = a.new_price
           /\ products[b.product_id].price = b.new_price

\* C3: a bulk increase is all or nothing: while it is in flight no step
\* changes the stored products or history, except the commit that comes after
\* the whole loop, which stores every selected product's new price together
\* with its pricehistory row; a request that fails leaves both tables as they
\* were.
C3_BulkIncreaseIsAtomic ==
    [][session.active =>
        \/ /\ products' = products
           /\ history' = history
        \/ /\ session.todo = <<>>
           /\ Answered("bulk")
           /\ \A i \in DOMAIN session.objs :
                /\ products'[i].price = session.objs[i].price
                /\ \E e \in Added :
                     /\ e.product_id = i
                     /\ e.new_price = products'[i].price]_vars

\* C3 witness: a read in the middle of a batch got the stored price while the
\* session already holds the new one.
C3_Witness ==
    /\ session.active
    /\ session.updated_count >= 1
    /\ session.todo # <<>>
    /\ req.op = "get" /\ resp.status = 200
    /\ req.id \in DOMAIN session.objs
    /\ resp.body.price = products[req.id].price
    /\ session.objs[req.id].price # products[req.id].price

\* C4, as claimed: a bulk increase with a category supplied changes only the
\* products of exactly that category (the others keep their row and get no
\* pricehistory row); with no category every product is selected; when no
\* product matches it answers updated = 0 and changes nothing.
C4_BulkIncreaseTouchesOnlyTheCategory ==
    [][Answered("bulk") =>
        LET payload == req'.data
            matching == IF payload.category = None THEN DOMAIN products
                        ELSE { i \in DOMAIN products :
                                 products[i].category = payload.category }
        IN  /\ \A i \in DOMAIN products \ matching :
                 /\ products'[i] = products[i]
                 /\ \A e \in Added : e.product_id # i
            /\ payload.category = None =>
                 \A i \in DOMAIN products : \E e \in Added : e.product_id = i
            /\ matching = {} =>
                 /\ resp'.body.updated = 0
                 /\ history' = history
                 /\ products' = products]_vars

\* C5, as claimed: the history request answers 404 exactly when no product
\* has the id; otherwise its body holds exactly the pricehistory rows of the
\* id, and a row written later never comes after a row written earlier.
C5_HistoryLaterWrittenFirst ==
    req.op = "history" =>
        /\ resp.status = 404 <=> req.id \notin DOMAIN products
        /\ req.id \in DOMAIN products =>
             LET rows == { history[k] : k \in { j \in DOMAIN history :
                             history[j].product_id = req.id } }
                 body == resp.body
             IN  /\ resp.status = 200
                 /\ Len(body) = Cardinality(rows)
                 /\ { body[k] : k \in DOMAIN body } = rows
                 /\ \A i, j \in DOMAIN body : i < j => body[i].id > body[j].id

\* C5, amended: as above, but the body is ordered by created_at descending:
\* no row comes after a row with a smaller created_at, and rows of one
\* created_at come in either order, whichever was written first.
C5_HistoryOrderedByCreatedAtDesc ==
    req.op = "history" =>
        /\ resp.status = 404 <=> req.id \notin DOMAIN products
        /\ req.id \in DOMAIN products =>
             LET rows == { history[k] : k \in { j \in DOMAIN history :
                             history[j].product_id = req.id } }
                 body == resp.body
             IN  /\ resp.status = 200
                 /\ Len(body) = Cardinality(rows)
                 /\ { body[k] : k \in DOMAIN body } = rows
                 /\ \A i, j \in DOMAIN body : i < j =>
                      body[i].created_at >= body[j].created_at

\* C5 witness: a history of two rows written at different ticks, the later
\* one first.
C5_Witness ==
    /\ req.op = "history" /\ resp.status = 200
    /\ Len(resp.body) >= 2
    /\ resp.body[1].created_at > resp.body[2].created_at
    /\ resp.body[1].id > resp.body[2].id

\* C6: no step changes or removes a pricehistory row; a delete removes the
\* product, so that a get of its id answers 404, and leaves the rows of that
\* id in the table.
C6_HistoryIsImmutable ==
    [][/\ \A k \in DOMAIN history :
            /\ k \in DOMAIN history'
            /\ history'[k] = history[k]
       /\ Answered("delete") =>
            /\ req'.id \in DOMAIN products
            /\ req'.id \notin DOMAIN products'
       /\ req'.op = "get" =>
            (resp'.status = 404 <=> req'.id \notin DOMAIN products')]_vars

\* C6 witness: a get of a deleted product answers 404 while rows of its id
\* are still in pricehistory.
C6_Witness ==
    /\ req.op = "get" /\ resp.status = 404
    /\ req.id \notin DOMAIN products
    /\ \E k \in DOMAIN history : history[k].product_id = req.id

\* C7: an update of an existing product changes, among name, category, cost
\* and price, only the fields its body carries, keeps id and created_at,
\* leaves every other product as it was, and sets updated_at to the time of
\* the request also when no field gets a new value.
C7_UpdateChangesOnlySuppliedFields ==
    [][Answered("update") =>
        LET id == req'.id
            data == req'.data
            old == products[id]
            new == products'[id]
        IN  /\ DOMAIN products' = DOMAIN products
            /\ \A i \in DOMAIN products \ {id} : products'[i] = products[i]
            /\ new.id = old.id
            /\ new.created_at = old.created_at
            /\ new.name = IF "name" \in data.fields_set
                          THEN data.name ELSE old.name
            /\ new.category = IF "category" \in data.fields_set
                              THEN data.category ELSE old.category
            /\ new.cost = IF "cost" \in data.fields_set
                          THEN data.cost ELSE old.cost
            /\ new.price = IF "price" \in data.fields_set
                           THEN data.price ELSE old.price
            /\ new.updated_at >= now
            /\ new.updated_at <= now'
            /\ resp'.body = new]_vars

\* C7 witness: an update whose only field, price, equals the stored price has
\* moved updated_at and written no pricehistory row.
C7_Witness ==
    /\ req.op = "update" /\ resp.status = 200
    /\ req.data.fields_set = {"price"}
    /\ resp.body.price = req.data.price
    /\ history = <<>>
    /\ products[req.id].updated_at = now
    /\ products[req.id].updated_at > products[req.id].created_at
    /\ products[req.id].name = "A"
    /\ products[req.id].cost = 50

\* C8, as claimed: created_at = updated_at when a create returns,
\* updated_at >= created_at for every stored product, and no update or bulk
\* increase lowers a product's updated_at.
C8_Timestamps ==
    [][/\ Answered("create") =>
            resp'.body.created_at = resp'.body.updated_at
       /\ \A i \in DOMAIN products' :
            products'[i].updated_at >= products'[i].created_at
       /\ req'.op \in {"update", "bulk"} =>
            \A i \in DOMAIN products \cap DOMAIN products' :
                products'[i].updated_at >= products[i].updated_at]_vars

\* C9, as claimed: every stored product's cost and price are non-negative.
C9_CostAndPriceNonNegative ==
    \A i \in DOMAIN products :
        /\ products[i].cost >= 0
        /\ products[i].price >= 0

\* C10, as claimed: the pricehistory rows of a stored product form a chain:
\* the row written last has the product's price as new_price, each row's
\* old_price is the new_price of the row written before it for the same id,
\* and a product just created has no row.
C10_HistoryIsAPriceChain ==
    /\ \A i \in DOMAIN products :
         LET idx == { k \in DOMAIN history : history[k].product_id = i }
         IN  idx # {} =>
               /\ history[Max(idx)].new_price = products[i].price
               /\ \A k \in idx : k # Max(idx) =>
                    LET n == CHOOSE m \in idx :
                               m > k /\ \A x \in idx : x > k => x >= m
                    IN  history[n].old_price = history[k].new_price
    /\ (req.op = "create" /\ resp.status = 200) =>
         \A k \in DOMAIN history : history[k].product_id # resp.body.id

====
